---- MODULE Spec2Model ----
(***************************************************************************)
(* email2signal (src/app.py): an SMTP handler that records recipients at   *)
(* RCPT and, at DATA, forwards the message to a Signal REST endpoint for   *)
(* the recipients whose recorded text starts with "+" and to an SMTP relay *)
(* for the others.                                                         *)
(*                                                                         *)
(* Strings the code inspects character by character (addresses, recorded   *)
(* recipients) are sequences of one-character strings; strings the code    *)
(* only passes on (responses, statuses) are TLA+ strings.                  *)
(***************************************************************************)
EXTENDS Integers, Sequences, FiniteSets, TLC

\* ------------------------------------------------------------------ bounds

\* Longest local part of a generated recipient address (SpecRcpt).
MaxLocal == 3

\* Most RCPT commands accepted before DATA in one transaction (Spec).
MaxRcpt == 2

\* ----------------------------------------------------------------- strings

Plus == "+"

DigitChars == {"0", "1", "2", "3", "4", "5", "6", "7", "8", "9"}

\* str.startswith("+")
startswith_plus(s) == Len(s) > 0 /\ s[1] = Plus

\* The text after the capture group in receiver_regex; "." is the regex
\* wildcard (the code does not escape it), every other character is literal.
receiver_regex_tail ==
    <<"@", "s", "i", "g", "n", "a", "l", ".",
      "l", "o", "c", "a", "l", "d", "o", "m", "a", "i", "n">>

\* One pattern character of receiver_regex_tail against one subject character.
regex_char_matches(p, c) == IF p = "." THEN c # "\n" ELSE p = c

\* The literal tail of the pattern matches s from position j on.
regex_tail_at(s, j) ==
    /\ j + Len(receiver_regex_tail) - 1 <= Len(s)
    /\ \A k \in 1..Len(receiver_regex_tail) :
          regex_char_matches(receiver_regex_tail[k], s[j + k - 1])

\* Last position of the maximal run of digits of s that starts at p
\* (s[p] is a digit): what the greedy \d+ consumes.
digit_run_end(s, p) ==
    CHOOSE e \in p..Len(s) :
        /\ \A k \in p..e : s[k] \in DigitChars
        /\ (e = Len(s) \/ s[e + 1] \notin DigitChars)

\* (\+?\d+)@signal.localdomain matches s starting exactly at position i.
\* \+? and \d+ are followed by "@", so backtracking finds nothing else.
regex_match_at(s, i) ==
    LET p == IF s[i] = Plus THEN i + 1 ELSE i
    IN  /\ p <= Len(s)
        /\ s[p] \in DigitChars
        /\ regex_tail_at(s, digit_run_end(s, p) + 1)

\* re.search(self.receiver_regex, address): the leftmost match and its
\* group 1, or no match.
receiver_regex_search(address) ==
    IF \E i \in 1..Len(address) : regex_match_at(address, i)
    THEN LET i == CHOOSE x \in 1..Len(address) :
                     /\ regex_match_at(address, x)
                     /\ \A y \in 1..(x - 1) : ~regex_match_at(address, y)
             p == IF address[i] = Plus THEN i + 1 ELSE i
         IN  [matched |-> TRUE,
              group1 |-> SubSeq(address, i, digit_run_end(address, p))]
    ELSE [matched |-> FALSE, group1 |-> <<>>]

\* match.group(1) raises TypeError: it never does on a match object.
group_raises_TypeError(m) == FALSE

\* number = match.group(1), "+"-prefixed unless the ADDRESS starts with "+".
signal_number(address, group1) ==
    IF ~startswith_plus(address) THEN <<Plus>> \o group1 ELSE group1

\* A mail address is appended as it is; the variant strips a leading "+".
mail_entry_stripped(address) ==
    IF startswith_plus(address) THEN Tail(address) ELSE address

mail_entry(address) == address

\* --------------------------------------------------------------- addresses

SignalDomain ==
    <<"@", "s", "i", "g", "n", "a", "l", ".",
      "l", "o", "c", "a", "l", "d", "o", "m", "a", "i", "n">>

\* Same length, another character where the pattern has its unescaped ".".
SignalLookalikeDomain ==
    <<"@", "s", "i", "g", "n", "a", "l", "x",
      "l", "o", "c", "a", "l", "d", "o", "m", "a", "i", "n">>

MailDomain == <<"@", "e", "x", "a", "m", "p", "l", "e", ".", "c", "o", "m">>

Domains == {SignalDomain, SignalLookalikeDomain, MailDomain}

LocalAlphabet == {Plus, "1", "a"}

LocalParts == UNION {[1..n -> LocalAlphabet] : n \in 0..MaxLocal}

\* Every address of the bounded alphabet: the inputs of SpecRcpt.
AllAddresses == {l \o d : l \in LocalParts, d \in Domains}

\* The addresses a transaction of Spec draws its recipients from.
SampleAddresses ==
    { <<Plus, "1">> \o SignalDomain,
      <<"1">> \o SignalDomain,
      <<"a", Plus, "1">> \o SignalDomain,
      <<Plus, "a", "1">> \o SignalDomain,
      SignalDomain,
      <<"a">> \o MailDomain,
      <<Plus, "a">> \o MailDomain }

\* ---------------------------------------------------------------- messages

\* One stretch of the body text: plain text, or a data URI
\* "data:image/<subtype>;base64,<payload>" with its payload's characters.
Text == [kind |-> "text", payload |-> <<>>]
DataUri(payload) == [kind |-> "data_uri", payload |-> payload]

\* The bodies of the messages: no image, one data URI whose payload is
\* broken over two lines, two data URIs (the second with a CR LF in it).
Bodies ==
    { <<Text>>,
      <<Text, DataUri(<<"A", "B", "\n", "C", "D">>), Text>>,
      <<DataUri(<<"A", "B">>), Text,
        DataUri(<<"C", "\r", "\n", "D">>)>> }

\* The named image/png parts of the messages, each by its base64 text.
PngParts == { <<>>, << <<"E", "F", "\n", "G", "H">> >> }

\* envelope.content, as far as the handler looks into it: whether the
\* message has a Subject header (mail.get('Subject') is None without one),
\* the text of its body part, and its named PNG parts.
Contents ==
    [subject_present : BOOLEAN, body : Bodies, png_parts : PngParts]

\* envelope.mail_from
Senders == {"alice@example.com", "bob@example.com"}

\* What requests.request does: it returns a response with a status code or
\* raises (connection refused, timeout, malformed response).
RestOutcomes ==
    { [raised |-> FALSE, status_code |-> 201],
      [raised |-> FALSE, status_code |-> 200],
      [raised |-> FALSE, status_code |-> 500],
      [raised |-> TRUE,  status_code |-> 0] }

\* What the relay transport (send_mail) returns.
RelayStatuses ==
    { "250 OK", "451 Temporary relay failure", "550 Relay rejected" }

\* ------------------------------------------------------------------- state

VARIABLES
    pc,            \* "open": RCPT phase; "done": handle_DATA has ended
    mail_from,     \* envelope.mail_from
    content,       \* envelope.content
    rcpt_tos,      \* envelope.rcpt_tos
    rcpt_log,      \* history: one entry per handle_RCPT call
    signal_numbers,   \* handle_DATA's local signal_numbers
    mail_addresses,   \* handle_DATA's local mail_addresses
    signal_result, \* "none" | "true" | "false" | "raised": send_signal's end
    calls,         \* history: outbound calls of the DATA transaction, in order
    data_result,   \* how handle_DATA ended
    environ,       \* os.environ at startup: each variable's value, or Unset
    proc,          \* the process: starting, serving or exited, and its config
    sess,          \* the concurrent sessions of SpecSessions, by session
    loop_holder    \* the session whose handler occupies the event loop, or 0

\* The variables of one session's transaction.
tx_vars == <<pc, mail_from, content, rcpt_tos, rcpt_log, signal_numbers,
             mail_addresses, signal_result, calls, data_result>>

\* The process and its concurrent sessions.
sys_vars == <<environ, proc, sess, loop_holder>>

vars == <<tx_vars, sys_vars>>

NoResult == [kind |-> "none", value |-> ""]
Return(v) == [kind |-> "return", value |-> v]
Raise(e) == [kind |-> "raise", value |-> e]

\* The envelope's three fields.
Envelope(from, tos, c) == [mail_from |-> from, rcpt_tos |-> tos, content |-> c]

NoEnvelope ==
    [mail_from |-> "", rcpt_tos |-> <<>>,
     content |-> [subject_present |-> FALSE, body |-> <<>>,
                  png_parts |-> <<>>]]

\* ----------------------------------------------------------------- startup

\* An environment variable that is not set.
Unset == "<unset>"

\* The variables amain reads with os.environ[...]: a missing one raises
\* KeyError. The variant reads the password with os.getenv.
required_env_without_password ==
    {"SIGNAL_REST_URL", "SENDER_NUMBER", "SMTP_HOST", "SMTP_USER"}

required_env ==
    {"SIGNAL_REST_URL", "SENDER_NUMBER", "SMTP_HOST", "SMTP_USER",
     "SMTP_PASSWORD"}

\* Every variable amain reads; SMTP_PORT is read with os.getenv.
EnvNames == required_env \cup {"SMTP_PASSWORD", "SMTP_PORT"}

\* The environments of a start: each variable set or not; a set SMTP_PORT
\* is "2525".
Environments ==
    {e \in [EnvNames -> {Unset, "set", "2525"}] :
        \A k \in EnvNames :
            e[k] # Unset => (e[k] = "2525" <=> k = "SMTP_PORT")}

\* os.getenv("SMTP_PORT", "587")
getenv_port(e) == IF e["SMTP_PORT"] = Unset THEN "587" ELSE e["SMTP_PORT"]

NoConfig ==
    [built |-> FALSE, signal_rest_url |-> "", sender_number |-> "",
     smtp_host |-> "", smtp_user |-> "", smtp_passwd |-> "", smtp_port |-> ""]

\* The process before amain has run.
ProcStarting ==
    [state |-> "starting", config |-> NoConfig, diagnostic |-> "",
     handler |-> FALSE, server |-> FALSE]

\* amain with environment e: the config dict, EmailHandler(config) and
\* controller.start(), or sys.exit with the diagnostic on KeyError.
amain_step(e) ==
    IF \A k \in required_env : e[k] # Unset
    THEN [state |-> "serving",
          config |-> [built |-> TRUE,
                      signal_rest_url |-> e["SIGNAL_REST_URL"],
                      sender_number |-> e["SENDER_NUMBER"],
                      smtp_host |-> e["SMTP_HOST"],
                      smtp_user |-> e["SMTP_USER"],
                      smtp_passwd |-> e["SMTP_PASSWORD"],
                      smtp_port |-> getenv_port(e)],
          diagnostic |-> "", handler |-> TRUE, server |-> TRUE]
    ELSE [state |-> "exited", config |-> NoConfig,
          diagnostic |-> "Please set the required environment variables.",
          handler |-> FALSE, server |-> FALSE]

\* An environment with everything set but the port.
DefaultEnvironment ==
    [k \in EnvNames |-> IF k = "SMTP_PORT" THEN Unset ELSE "set"]

\* ---------------------------------------------------------------- sessions

\* Sessions the server handles at the same time (SpecSessions).
NumSessions == 2

Sessions == 1..NumSessions

\* The recipients and messages of the concurrent sessions.
SessionAddresses ==
    { <<Plus, "1">> \o SignalDomain,
      <<"a">> \o MailDomain }

SessionContents ==
    { [subject_present |-> TRUE, body |-> <<Text>>, png_parts |-> <<>>] }

\* What a handle_DATA run yields, before any has run.
NoOut ==
    [signal_numbers |-> <<>>, mail_addresses |-> <<>>,
     signal_result |-> "none", calls |-> <<>>, envelope |-> NoEnvelope,
     result |-> NoResult]

\* A session at the start of a transaction on a message with content c: its
\* envelope, the history of its RCPT commands, the outbound call its
\* handle_DATA waits for, the REST outcome it got, and what its handle_DATA
\* yielded.
FreshSession(c) ==
    [pc |-> "open", pending |-> "", rest |-> [raised |-> FALSE,
                                             status_code |-> 0],
     env |-> Envelope("alice@example.com", <<>>, c),
     rcpt_log |-> <<>>, out |-> NoOut]

\* ------------------------------------------------------------ initial state

\* A fresh envelope at the start of a transaction.
InitEnvelope ==
    /\ pc = "open"
    /\ mail_from \in Senders
    /\ content \in Contents
    /\ rcpt_tos = <<>>
    /\ rcpt_log = <<>>
    /\ signal_numbers = <<>>
    /\ mail_addresses = <<>>
    /\ signal_result = "none"
    /\ calls = <<>>
    /\ data_result = NoResult

\* The process serves, started from the default environment.
InitServing ==
    /\ environ = DefaultEnvironment
    /\ proc = amain_step(DefaultEnvironment)

\* No handler runs on the event loop.
InitIdleSessions ==
    /\ sess = [s \in Sessions |->
                 FreshSession([subject_present |-> TRUE, body |-> <<Text>>,
                               png_parts |-> <<>>])]
    /\ loop_holder = 0

Init == InitEnvelope /\ InitServing /\ InitIdleSessions

\* ------------------------------------------------------------- handle_RCPT

\* envelope.rcpt_tos.append(x); the variant inserts at the front.
append_rcpt_front(tos, x) == <<x>> \o tos

append_rcpt(tos, x) == Append(tos, x)

\* What one handle_RCPT call does with `address`: its response, whether it
\* appends, what it appends, and which branch (variant) it took.
rcpt_step(address) ==
    LET m == receiver_regex_search(address)
    IN  IF m.matched
        THEN IF group_raises_TypeError(m)
             THEN [response |-> "500 Malformed receiver address",
                   appended |-> FALSE, value |-> <<>>, variant |-> "rejected"]
             ELSE [response |-> "250 OK", appended |-> TRUE,
                   value |-> signal_number(address, m.group1),
                   variant |-> "signal"]
        ELSE [response |-> "250 OK", appended |-> TRUE,
              value |-> mail_entry(address), variant |-> "email"]

handle_RCPT(address) ==
    LET r == rcpt_step(address)
        after == IF r.appended THEN append_rcpt(rcpt_tos, r.value)
                 ELSE rcpt_tos
    IN  /\ pc = "open"
        /\ rcpt_tos' = after
        /\ rcpt_log' = Append(rcpt_log,
                              [address |-> address, response |-> r.response,
                               variant |-> r.variant, value |-> r.value,
                               before |-> rcpt_tos, after |-> after])
        /\ UNCHANGED <<pc, mail_from, content, signal_numbers,
                       mail_addresses, signal_result, calls, data_result>>
        /\ UNCHANGED sys_vars

\* ------------------------------------------------------------- send_signal

\* The JSON payload of a POST, as far as it is modelled: its "recipients",
\* and its "base64_attachments" when the key is there.
Payload(recipients, has_attachments, attachments) ==
    [recipients |-> recipients, has_attachments |-> has_attachments,
     base64_attachments |-> attachments]

NoPayload == Payload(<<>>, FALSE, <<>>)

\* A call of the transaction's history. `status_code` is the HTTP status of
\* a POST that returned, `status` the relay transport's answer to send_mail,
\* `payload` what a POST carried, `envelope` what send_mail was handed.
CallWith(op, rcpts, raised, status_code, status, payload, envelope) ==
    [op |-> op, rcpts |-> rcpts, raised |-> raised,
     status_code |-> status_code, status |-> status,
     payload |-> payload, envelope |-> envelope]

Call(op, rcpts, raised, status_code, status) ==
    CallWith(op, rcpts, raised, status_code, status, NoPayload, NoEnvelope)

\* re.findall(image_regex, body): the payload of every data URI of the body
\* whose payload has at least one character, in the order of the text.
findall_data_uri(body) ==
    LET found == SelectSeq(body, LAMBDA seg :
                     seg.kind = "data_uri" /\ Len(seg.payload) > 0)
    IN  [i \in 1..Len(found) |-> found[i].payload]

\* img.replace("\n", "").replace("\r", "")
strip_linebreaks(img) == SelectSeq(img, LAMBDA ch : ch \notin {"\n", "\r"})

\* The payload send_signal builds: the images are the data URIs of the body
\* alone (self.image_regex, for the named PNG parts, is never applied).
build_payload(c, signal_receivers) ==
    LET matches == findall_data_uri(c.body)
    IN  IF Len(matches) > 0
        THEN Payload(signal_receivers, TRUE,
                     [i \in 1..Len(matches) |-> strip_linebreaks(matches[i])])
        ELSE Payload(signal_receivers, FALSE, <<>>)

\* header_decode(mail.get('Subject')): without a Subject header the argument
\* is None and email.header.decode_header raises TypeError.
header_decode_raises(c) == ~c.subject_present

\* The success test of the REST response: HTTP 201 and nothing else.
status_created(status_code) == status_code = 201

\* send_signal(envelope, signal_receivers) with `rest` the outcome of its
\* requests.request: how it ends ("true"/"false" returned, or "raised") and
\* the calls it made. Nothing in it catches an exception.
send_signal(c, signal_receivers, rest) ==
    LET invoked == Call("send_signal", signal_receivers, FALSE, 0, "")
        post == CallWith("POST", signal_receivers, rest.raised,
                         rest.status_code, "",
                         build_payload(c, signal_receivers), NoEnvelope)
    IN  IF header_decode_raises(c)
        THEN [end |-> "raised", exc |-> "TypeError", calls |-> <<invoked>>]
        ELSE IF rest.raised
        THEN [end |-> "raised", exc |-> "RequestException",
              calls |-> <<invoked, post>>]
        ELSE [end |-> IF status_created(rest.status_code)
                      THEN "true" ELSE "false",
              exc |-> "", calls |-> <<invoked, post>>]

\* ------------------------------------------------------------- handle_DATA

\* The two buckets: by the first character of the recorded text.
signal_numbers_of(rcpts) == SelectSeq(rcpts, LAMBDA a : startswith_plus(a))

mail_addresses_of(rcpts) == SelectSeq(rcpts, LAMBDA a : ~startswith_plus(a))

\* `if len(signal_numbers) > 0`; the variant dispatches in every case.
needs_signal_always(signals) == TRUE

needs_signal(signals) == Len(signals) > 0

\* `envelope.rcpt_tos = mail_addresses`, then send_mail(..., envelope): the
\* relay is handed the transaction's own envelope, narrowed. The variant
\* hands on a content without its named parts.
relay_envelope_reencoded(env, mails) ==
    [env EXCEPT !.rcpt_tos = mails, !.content.png_parts = <<>>]

relay_envelope(env, mails) == [env EXCEPT !.rcpt_tos = mails]

\* `if not success: return "554 ..."`; the variant goes on to the relay.
abort_on_failure_never(success) == FALSE

abort_on_failure(success) == ~success

\* `if len(mail_addresses) == 0: return "250 ..." else: relay`; the variant
\* relays in every case.
needs_relay_always(mails) == TRUE

needs_relay(mails) == Len(mails) > 0

\* `return send_mail(...)`; the variant maps every relay failure to the
\* handler's own 554.
relay_response_reinterpreted(status) ==
    IF status = "250 OK" THEN status
    ELSE "554 Sending signal message has failed"

relay_response(status) == status

\* The status the relay transport yields for the narrowed envelope.
send_mail(rcpts, relay) == relay

\* One run of handle_DATA on envelope `env`, with `rest` what the REST call
\* does and `relay` what the relay transport answers: the locals, the calls,
\* the envelope it leaves and how it ends.
data_step(env, rest, relay) ==
    LET signals == signal_numbers_of(env.rcpt_tos)
        mails == mail_addresses_of(env.rcpt_tos)
        sig == IF needs_signal(signals)
               THEN send_signal(env.content, signals, rest)
               ELSE [end |-> "none", exc |-> "", calls |-> <<>>]
        base == [signal_numbers |-> signals, mail_addresses |-> mails,
                 signal_result |-> sig.end, calls |-> sig.calls,
                 envelope |-> env, result |-> NoResult]
    IN  IF sig.end = "raised"
        THEN [base EXCEPT !.result = Raise(sig.exc)]
        ELSE IF sig.end # "none" /\ abort_on_failure(sig.end = "true")
        THEN [base EXCEPT
                !.result = Return("554 Sending signal message has failed")]
        ELSE IF ~needs_relay(mails)
        THEN [base EXCEPT
                !.result = Return("250 Message accepted for delivery")]
        ELSE LET narrowed == relay_envelope(env, mails)
                 status == send_mail(narrowed.rcpt_tos, relay)
             IN  [base EXCEPT
                    !.envelope = narrowed,
                    !.calls = Append(sig.calls,
                                CallWith("send_mail", narrowed.rcpt_tos, FALSE,
                                         0, status, NoPayload, narrowed)),
                    !.result = Return(relay_response(status))]

handle_DATA ==
    /\ pc = "open"
    /\ \E rest \in RestOutcomes, relay \in RelayStatuses :
          LET d == data_step(Envelope(mail_from, rcpt_tos, content),
                             rest, relay)
          IN  /\ pc' = "done"
              /\ mail_from' = d.envelope.mail_from
              /\ content' = d.envelope.content
              /\ rcpt_tos' = d.envelope.rcpt_tos
              /\ signal_numbers' = d.signal_numbers
              /\ mail_addresses' = d.mail_addresses
              /\ signal_result' = d.signal_result
              /\ calls' = d.calls
              /\ data_result' = d.result
              /\ UNCHANGED rcpt_log
              /\ UNCHANGED sys_vars

\* The protocol layer starts the next transaction with a fresh envelope.
NewTransaction ==
    /\ pc = "done"
    /\ pc' = "open"
    /\ mail_from' \in Senders
    /\ content' \in Contents
    /\ rcpt_tos' = <<>>
    /\ rcpt_log' = <<>>
    /\ signal_numbers' = <<>>
    /\ mail_addresses' = <<>>
    /\ signal_result' = "none"
    /\ calls' = <<>>
    /\ data_result' = NoResult
    /\ UNCHANGED sys_vars

\* ---------------------------------------------------------- specifications

\* One RCPT command of a transaction of Spec.
RCPT ==
    /\ Len(rcpt_log) < MaxRcpt
    /\ \E address \in SampleAddresses : handle_RCPT(address)

Next == RCPT \/ handle_DATA \/ NewTransaction

\* RCPT and DATA transactions of one session.
Spec == Init /\ [][Next]_vars

\* The first RCPT command of an envelope, on any address of the alphabet.
RcptAny ==
    /\ rcpt_log = <<>>
    /\ \E address \in AllAddresses : handle_RCPT(address)

NextRcpt == RcptAny

\* The recipient classifier alone, over every address of the alphabet.
SpecRcpt == Init /\ [][NextRcpt]_vars

\* No transaction is under way: the envelope variables at rest.
InitNoTransaction ==
    /\ pc = "open"
    /\ mail_from = "alice@example.com"
    /\ content = [subject_present |-> TRUE, body |-> <<Text>>,
                  png_parts |-> <<>>]
    /\ rcpt_tos = <<>>
    /\ rcpt_log = <<>>
    /\ signal_numbers = <<>>
    /\ mail_addresses = <<>>
    /\ signal_result = "none"
    /\ calls = <<>>
    /\ data_result = NoResult

\* The process is launched in any environment.
InitStartup ==
    /\ InitNoTransaction
    /\ InitIdleSessions
    /\ environ \in Environments
    /\ proc = ProcStarting

\* The task the main block schedules: amain runs once.
amain ==
    /\ proc.state = "starting"
    /\ proc' = amain_step(environ)
    /\ UNCHANGED <<tx_vars, environ, sess, loop_holder>>

NextStartup == amain

\* The start of the process, over every environment.
SpecStartup == InitStartup /\ [][NextStartup]_vars

\* The positions in the call history `cs` of the calls with operation `op`.
PositionsIn(cs, op) == {i \in 1..Len(cs) : cs[i].op = op}

\* ------------------------------------------------------ concurrent sessions

\* The envelope a handler call of session s works on: the `envelope`
\* argument of the call, the session's own (the handler keeps none on
\* self). The variant is a handler with one envelope for all sessions.
handler_envelope_shared(s) == 1

handler_envelope(s) == s

\* A handler can start only while no other handler occupies the event loop:
\* the Controller runs every session on one loop, one callback at a time.
loop_free == loop_holder = 0

\* The first outbound call a handle_DATA run on envelope `env` blocks in:
\* requests.request when send_signal gets that far, else send_mail when the
\* relay is due at once, else none.
first_pending(env) ==
    LET signals == signal_numbers_of(env.rcpt_tos)
        mails == mail_addresses_of(env.rcpt_tos)
    IN  IF needs_signal(signals)
        THEN IF header_decode_raises(env.content) THEN "" ELSE "POST"
        ELSE IF needs_relay(mails) THEN "send_mail" ELSE ""

\* handle_RCPT of session s: it runs to its end in one piece (it awaits
\* nothing). A transaction of SpecSessions takes up to two recipients.
session_RCPT(s) ==
    /\ loop_free
    /\ sess[s].pc = "open"
    /\ Len(sess[s].rcpt_log) < 2
    /\ \E address \in SessionAddresses :
          LET r == rcpt_step(address)
              e == handler_envelope(s)
              before == sess[e].env.rcpt_tos
              after == IF r.appended THEN append_rcpt(before, r.value)
                       ELSE before
          IN  sess' = [sess EXCEPT
                          ![e].env.rcpt_tos = after,
                          ![s].rcpt_log = Append(@,
                              [address |-> address, response |-> r.response,
                               variant |-> r.variant, value |-> r.value,
                               before |-> before, after |-> after])]
    /\ UNCHANGED <<tx_vars, environ, proc, loop_holder>>

\* Session s's handle_DATA ends: what it yielded is kept, the envelope is
\* left as the run left it, the event loop is free again.
session_finished(s, d) ==
    /\ sess' = [sess EXCEPT ![handler_envelope(s)].env = d.envelope,
                            ![s].pc = "done",
                            ![s].pending = "",
                            ![s].out = d]
    /\ loop_holder' = 0

\* handle_DATA of session s starts. With no outbound call to make it ends
\* at once; otherwise it enters the call, and since requests.request and
\* send_mail are plain blocking calls inside the coroutine, the handler
\* keeps the event loop until the call returns.
session_DATA(s) ==
    /\ loop_free
    /\ sess[s].pc = "open"
    /\ LET env == sess[handler_envelope(s)].env
           first == first_pending(env)
       IN  IF first = ""
           THEN \E rest \in RestOutcomes, relay \in RelayStatuses :
                    session_finished(s, data_step(env, rest, relay))
           ELSE /\ sess' = [sess EXCEPT ![s].pc = "waiting",
                                        ![s].pending = first]
                /\ loop_holder' = s
    /\ UNCHANGED <<tx_vars, environ, proc>>

\* The REST call of session s returns or raises: handle_DATA ends, or goes
\* on into send_mail, still on the event loop.
session_rest_returns(s) ==
    /\ loop_holder = s
    /\ sess[s].pc = "waiting"
    /\ sess[s].pending = "POST"
    /\ \E rest \in RestOutcomes, relay \in RelayStatuses :
          LET env == sess[handler_envelope(s)].env
              d == data_step(env, rest, relay)
          IN  IF PositionsIn(d.calls, "send_mail") # {}
              THEN /\ sess' = [sess EXCEPT ![s].pending = "send_mail",
                                           ![s].rest = rest]
                   /\ UNCHANGED loop_holder
              ELSE session_finished(s, d)
    /\ UNCHANGED <<tx_vars, environ, proc>>

\* The relay call of session s returns: handle_DATA returns its status.
session_relay_returns(s) ==
    /\ loop_holder = s
    /\ sess[s].pc = "waiting"
    /\ sess[s].pending = "send_mail"
    /\ \E relay \in RelayStatuses :
          LET env == sess[handler_envelope(s)].env
          IN  session_finished(s, data_step(env, sess[s].rest, relay))
    /\ UNCHANGED <<tx_vars, environ, proc>>

\* Session s starts its next transaction on a fresh envelope.
session_new_transaction(s) ==
    /\ loop_free
    /\ sess[s].pc = "done"
    /\ \E c \in SessionContents :
          sess' = [sess EXCEPT ![s] = FreshSession(c)]
    /\ UNCHANGED <<tx_vars, environ, proc, loop_holder>>

\* The server serves, every session at the start of a transaction.
InitSessions ==
    /\ InitNoTransaction
    /\ InitServing
    /\ sess \in [Sessions -> {FreshSession(c) : c \in SessionContents}]
    /\ loop_holder = 0

NextSessions ==
    \E s \in Sessions :
        \/ session_RCPT(s)
        \/ session_DATA(s)
        \/ session_rest_returns(s)
        \/ session_relay_returns(s)
        \/ session_new_transaction(s)

\* Concurrent sessions on the one event loop of the Controller.
SpecSessions == InitSessions /\ [][NextSessions]_vars

\* ------------------------------------------------------------------ claims

\* The positions in `calls` of the calls with operation `op`.
PositionsOf(op) == {i \in 1..Len(calls) : calls[i].op = op}

\* What handle_RCPT recorded for the recipients it classified as `variant`,
\* in the order of their RCPT commands.
RecordedAs(variant) ==
    LET es == SelectSeq(rcpt_log, LAMBDA e : e.variant = variant)
    IN  [i \in 1..Len(es) |-> es[i].value]

Failed554 == Return("554 Sending signal message has failed")
Accepted250 == Return("250 Message accepted for delivery")

\* C1: in a DATA transaction whose messaging bucket is non-empty and whose
\* send_signal returned failure, handle_DATA answers 554 and send_mail is
\* not invoked, whatever email addresses the envelope holds.
C1_SignalFailureAborts ==
    (pc = "done" /\ Len(signal_numbers) > 0 /\ signal_result = "false")
        => /\ data_result = Failed554
           /\ PositionsOf("send_mail") = {}

\* C1's case: the messaging call failed and the envelope also held email
\* addresses.
C1_Witness ==
    /\ pc = "done"
    /\ Len(signal_numbers) > 0
    /\ Len(mail_addresses) > 0
    /\ signal_result = "false"
    /\ \E i \in PositionsOf("POST") : calls[i].status_code = 500

\* C2 (as stated): with both messaging and email recipients accepted at RCPT
\* and a messaging endpoint that answers 201, send_mail is invoked exactly
\* once, after the POST, with all and only the email addresses, in order.
C2_RelayGetsExactlyTheEmailAddresses ==
    ( /\ pc = "done"
      /\ Len(RecordedAs("signal")) > 0
      /\ Len(RecordedAs("email")) > 0
      /\ \E i \in PositionsOf("POST") :
            ~calls[i].raised /\ calls[i].status_code = 201 )
        => /\ Cardinality(PositionsOf("send_mail")) = 1
           /\ \A i \in PositionsOf("send_mail") :
                 /\ calls[i].rcpts = RecordedAs("email")
                 /\ \A j \in PositionsOf("POST") : j < i

\* C3: whenever send_mail is invoked, handle_DATA returns exactly the status
\* the relay transport returned.
C3_RelayStatusVerbatim ==
    \A i \in PositionsOf("send_mail") : data_result = Return(calls[i].status)

\* C3's case: the relay was invoked and answered with a failure.
C3_Witness ==
    /\ pc = "done"
    /\ \E i \in PositionsOf("send_mail") :
          calls[i].status = "550 Relay rejected"

\* C4: with an empty email bucket and a messaging dispatch that succeeded or
\* was not needed, handle_DATA answers 250 and send_mail is not invoked.
C4_NoRelayWithoutEmail ==
    ( /\ pc = "done"
      /\ Len(mail_addresses) = 0
      /\ signal_result \in {"none", "true"} )
        => /\ data_result = Accepted250
           /\ PositionsOf("send_mail") = {}

\* C4's case: only messaging recipients, and the messaging call succeeded.
C4_Witness ==
    /\ pc = "done"
    /\ Len(mail_addresses) = 0
    /\ Len(signal_numbers) > 0
    /\ signal_result = "true"
    /\ data_result = Accepted250

\* C5 (as stated): a DATA transaction makes exactly one REST call when the
\* messaging bucket is non-empty and none when it is empty.
C5_ExactlyOnePostPerNonEmptyBucket ==
    pc = "done" =>
        Cardinality(PositionsOf("POST"))
            = IF Len(signal_numbers) > 0 THEN 1 ELSE 0

\* The digits of a capture group: the group without its optional "+".
DigitsOf(group1) == IF startswith_plus(group1) THEN Tail(group1) ELSE group1

\* C6 (as stated): for every address the messaging pattern matches,
\* handle_RCPT records "+" followed by the address's digit group, and no
\* recorded contact id starts with two "+".
C6_CanonicalContactId ==
    \A i \in 1..Len(rcpt_log) :
        LET e == rcpt_log[i]
            m == receiver_regex_search(e.address)
        IN  /\ m.matched =>
                /\ e.response = "250 OK"
                /\ e.after = Append(e.before, <<Plus>> \o DigitsOf(m.group1))
            /\ e.variant = "signal" =>
                ~(Len(e.value) >= 2 /\ e.value[1] = Plus /\ e.value[2] = Plus)

AtReservedDomain(a) ==
    /\ Len(a) >= Len(SignalDomain)
    /\ SubSeq(a, Len(a) - Len(SignalDomain) + 1, Len(a)) = SignalDomain

\* The text before "@signal.localdomain".
LocalPartOf(a) == SubSeq(a, 1, Len(a) - Len(SignalDomain))

\* A local part that is an optional "+" and then one digit or more.
IsNumericLocal(l) ==
    LET d == DigitsOf(l)
    IN  Len(d) > 0 /\ \A k \in 1..Len(d) : d[k] \in DigitChars

\* C8 (as stated): an address at the reserved domain whose local part is
\* empty or non-numeric is rejected with 500 and not added to the envelope.
C8_MalformedReceiverRejected ==
    \A i \in 1..Len(rcpt_log) :
        LET e == rcpt_log[i]
        IN  (AtReservedDomain(e.address)
                /\ ~IsNumericLocal(LocalPartOf(e.address)))
            => /\ e.response = "500 Malformed receiver address"
               /\ e.after = e.before

\* C9 (as stated): when the REST call ends in a transport error, send_signal
\* reports failure and handle_DATA answers 554.
C9_TransportErrorIs554 ==
    (pc = "done" /\ \E i \in PositionsOf("POST") : calls[i].raised)
        => /\ signal_result = "false"
           /\ data_result = Failed554

\* C10 (as stated): every DATA transaction ends with handle_DATA returning
\* 250, 554 or the relay transport's status; nothing leaves as an exception.
C10_AlwaysAResponse ==
    pc = "done" =>
        /\ data_result.kind = "return"
        /\ \/ data_result \in {Accepted250, Failed554}
           \/ \E i \in PositionsOf("send_mail") :
                 data_result.value = calls[i].status

\* C14 (as stated): handle_DATA's buckets are handle_RCPT's classification:
\* the messaging bucket holds exactly the recipients recorded as messaging
\* contacts, the email bucket exactly those recorded as email addresses.
C14_PartitionAgreesWithClassification ==
    pc = "done" =>
        /\ signal_numbers = RecordedAs("signal")
        /\ mail_addresses = RecordedAs("email")

\* C15: in the RCPT phase the recipient list is what the handle_RCPT calls
\* made of it, one after the other; a call that answers 250 OK adds one entry
\* at the end and keeps the earlier entries, any other call changes nothing.
C15_RcptOnlyAppends ==
    /\ \A i \in 1..Len(rcpt_log) :
          LET e == rcpt_log[i]
          IN  /\ e.before = IF i = 1 THEN <<>> ELSE rcpt_log[i - 1].after
              /\ e.response = "250 OK" =>
                    /\ Len(e.after) = Len(e.before) + 1
                    /\ SubSeq(e.after, 1, Len(e.before)) = e.before
                    /\ e.after[Len(e.after)] = e.value
              /\ e.response # "250 OK" => e.after = e.before
    /\ pc = "open" =>
          rcpt_tos = IF rcpt_log = <<>> THEN <<>>
                     ELSE rcpt_log[Len(rcpt_log)].after

\* C15's case: two accepted RCPT commands with different recipients.
C15_Witness ==
    /\ pc = "open"
    /\ Len(rcpt_log) = 2
    /\ Len(rcpt_tos) = 2
    /\ rcpt_tos[1] # rcpt_tos[2]
    /\ \A i \in 1..2 : rcpt_log[i].response = "250 OK"

\* C16: a handle_DATA run leaves the envelope's sender and content as they
\* were, hands exactly them to send_mail when it invokes the relay, and
\* changes the recipient list only on the path that invokes the relay.
C16_DataKeepsSenderAndContent ==
    [][(pc = "open" /\ pc' = "done") =>
          /\ mail_from' = mail_from
          /\ content' = content
          /\ \A i \in PositionsIn(calls', "send_mail") :
                /\ calls'[i].envelope.mail_from = mail_from
                /\ calls'[i].envelope.content = content
          /\ rcpt_tos' # rcpt_tos => PositionsIn(calls', "send_mail") # {}
      ]_vars

\* C16's case: the relay was invoked after a successful messaging dispatch
\* on a message with a named PNG part and a data URI.
C16_Witness ==
    /\ pc = "done"
    /\ signal_result = "true"
    /\ content.png_parts # <<>>
    /\ \E i \in PositionsOf("POST") : calls[i].payload.has_attachments
    /\ \E i \in PositionsOf("send_mail") :
          /\ calls[i].envelope.content = content
          /\ calls[i].envelope.mail_from = mail_from

\* The images of a message: the data URIs of its body, then its named PNG
\* parts, each with its line breaks removed.
ImagesOf(c) ==
    LET uris == SelectSeq(c.body, LAMBDA seg : seg.kind = "data_uri")
        clean(img) == SelectSeq(img, LAMBDA ch : ch \notin {"\n", "\r"})
    IN  [i \in 1..Len(uris) |-> clean(uris[i].payload)]
            \o [i \in 1..Len(c.png_parts) |-> clean(c.png_parts[i])]

\* C17 (as stated): the payload of the REST call carries every image of the
\* message once and in order, without line breaks, and has the
\* "base64_attachments" key exactly when the message has an image.
C17_EveryImageInPayload ==
    \A i \in PositionsOf("POST") :
        /\ calls[i].payload.has_attachments <=> ImagesOf(content) # <<>>
        /\ calls[i].payload.base64_attachments = ImagesOf(content)

\* C18: handle_DATA on an envelope without recipients answers 250 and makes
\* no call: neither send_signal nor send_mail is invoked, nothing is refused.
C18_EmptyEnvelopeAccepted ==
    (pc = "done" /\ rcpt_log = <<>>)
        => /\ data_result = Accepted250
           /\ calls = <<>>

\* C18's case: DATA was handled although no RCPT had been accepted.
C18_Witness ==
    /\ pc = "done"
    /\ rcpt_log = <<>>
    /\ signal_numbers = <<>>
    /\ mail_addresses = <<>>
    /\ data_result = Accepted250

\* C13: once amain has run, the process serves with a handler, a server and
\* a config exactly when the base URL, the sender id, the relay host, user
\* and password are all set, its port being "587" when SMTP_PORT is not set;
\* otherwise it has exited with a diagnostic and started nothing.
C13_StartupNeedsFiveValues ==
    proc.state # "starting" =>
        IF /\ environ["SIGNAL_REST_URL"] # Unset
           /\ environ["SENDER_NUMBER"] # Unset
           /\ environ["SMTP_HOST"] # Unset
           /\ environ["SMTP_USER"] # Unset
           /\ environ["SMTP_PASSWORD"] # Unset
        THEN /\ proc.state = "serving"
             /\ proc.handler /\ proc.server
             /\ proc.config.built
             /\ proc.config.smtp_port
                   = IF environ["SMTP_PORT"] = Unset THEN "587"
                     ELSE environ["SMTP_PORT"]
        ELSE /\ proc.state = "exited"
             /\ proc.diagnostic # ""
             /\ ~proc.handler /\ ~proc.server
             /\ ~proc.config.built

\* C13's case: only the relay password is missing, and the process exited.
C13_Witness ==
    /\ proc.state = "exited"
    /\ environ["SMTP_PASSWORD"] = Unset
    /\ \A k \in EnvNames \ {"SMTP_PASSWORD"} : environ[k] # Unset

\* C11 (as stated): while the handler of one session waits for its REST or
\* relay call, every other session that is in its RCPT phase can have its
\* next handler (RCPT or DATA) run.
C11_OtherSessionsProceed ==
    \A s \in Sessions : \A t \in Sessions \ {s} :
        (sess[s].pc = "waiting" /\ sess[t].pc = "open")
            => ENABLED (session_RCPT(t) \/ session_DATA(t))

\* What session s's own RCPT commands recorded, in order.
OwnRecipients(s) ==
    [i \in 1..Len(sess[s].rcpt_log) |-> sess[s].rcpt_log[i].value]

\* C12: under every interleaving of the sessions' handlers, a session's
\* envelope holds its own recipients alone, and what its handle_DATA yielded
\* (buckets, calls, response, envelope) is what handle_DATA yields on that
\* envelope alone for some outcome of its own calls.
C12_TransactionsIndependent ==
    \A s \in Sessions :
        /\ sess[s].pc \in {"open", "waiting"} =>
              sess[s].env.rcpt_tos = OwnRecipients(s)
        /\ sess[s].pc = "done" =>
              /\ \E rest \in RestOutcomes, relay \in RelayStatuses :
                    sess[s].out
                        = data_step(Envelope(sess[s].env.mail_from,
                                             OwnRecipients(s),
                                             sess[s].env.content),
                                    rest, relay)
              /\ sess[s].env = sess[s].out.envelope

\* C12's case: one session has ended its DATA with outbound calls while
\* another, with other recipients, is inside its own outbound call.
C12_Witness ==
    \E s \in Sessions : \E t \in Sessions \ {s} :
        /\ sess[s].pc = "done"
        /\ sess[s].out.calls # <<>>
        /\ sess[t].pc = "waiting"
        /\ OwnRecipients(t) # <<>>
        /\ OwnRecipients(s) # OwnRecipients(t)

====
